---- MODULE Spec2Model ----
(***************************************************************************)
(* Model of multixstar (src/multixstar.py): parallel execution of XSTAR    *)
(* jobs in a multiprocessing pool, one working directory per job.          *)
(*                                                                         *)
(* Strings are sequences of tokens (a token is a TLA+ string; every        *)
(* decimal digit is its own token), paths are sequences of components,     *)
(* each component a string in that sense.                                  *)
(***************************************************************************)
EXTENDS Naturals, Integers, Sequences, FiniteSets, TLC

\* ---------------------------------------------------------------- bounds
MaxCmds == 101      \* longest command list given to make_jobs alone
MaxOrd  == 2        \* largest ordinal pre-existing in the parent directory
MaxCalls == 2       \* successive make_new_dir calls on one parent
MaxJobs == 3        \* longest command list of a whole run
MaxProc == 2        \* largest nproc option
MaxOut  == 6        \* most bytes a command run alone writes to its stdout
PipeCap == 2        \* bytes the stdout pipe holds before a write blocks

VARIABLES
  cmds,        \* list of command lines (get_xstar_cmds result)
  jobs,        \* dict key -> command, as the ordered list of its items
  fs,          \* file system: function from existing paths to their kind
  writable,    \* whether the parent directory accepts new entries
  extra,       \* the qualifier argument of make_new_dir
  dirRet,      \* paths returned by the make_new_dir calls so far
  pc,          \* position of the main process
  ftools,      \* $FTOOLS is set
  headas,      \* $HEADAS is set
  sysPar,      \* $HEADAS/syspfiles/xstar.par is there
  isDir,       \* options.workdir is a directory
  nproc,       \* options.nproc
  keeplog,     \* options.keeplog
  args,        \* the positional arguments (joblist or xstinitable parameters)
  cwd,         \* current directory of the main process
  model_dir,   \* main's model_dir
  run_dirs,    \* main's run_dirs
  logExists,   \* options.log_file is there
  log,         \* what logging.info has written, in order
  queue,       \* pool: tasks not yet taken by a worker, in submission order
  wk,          \* pool: the worker processes
  results,     \* pool: the slot of every task in the map result
  outq,        \* pool: tasks in the order their results came back
  outcome,     \* what the external command of every job did
  launched,    \* how many times the command of every job was launched
  copies,      \* the copy_file calls of setup_pfiles: job and destination
  failed,      \* main's failed
  invoked,     \* the xstar2table invocations so far, in order
  xstable,     \* make_xstable has been called
  exitStatus,  \* exit status of the process, -1 while it runs
  checked,     \* what the calls of check_results run alone have returned
  proc,        \* run() alone: the subprocess, its stdout pipe and the caller
  callers      \* make_new_dir called by two processes at once: their locals

mainVars == <<ftools, headas, sysPar, isDir, nproc, keeplog, args, cwd,
              model_dir, run_dirs, logExists, log, queue, wk, results, outq,
              outcome, launched, copies, failed, invoked, xstable, exitStatus,
              checked, proc, callers>>

unitVars == <<checked, proc, callers>>

vars == <<cmds, jobs, fs, writable, extra, dirRet, pc, mainVars>>

\* ------------------------------------------------------- strings, numbers
DigitChars == <<"0", "1", "2", "3", "4", "5", "6", "7", "8", "9">>

\* str(n) for a non-negative integer
RECURSIVE Str(_)
Str(n) == IF n < 10 THEN <<DigitChars[n + 1]>>
          ELSE Str(n \div 10) \o <<DigitChars[(n % 10) + 1]>>

RECURSIVE Zeros(_)
Zeros(k) == IF k <= 0 THEN <<>> ELSE <<"0">> \o Zeros(k - 1)

\* "%0<w>d" % n : zero padded on the left, never truncated
Pad(w, n) == Zeros(w - Len(Str(n))) \o Str(n)

\* code point order of the digit tokens
Ord(ch) == CHOOSE i \in 0..9 : DigitChars[i + 1] = ch

\* Python's str.__lt__ on strings of digits
RECURSIVE StrLess(_, _)
StrLess(a, b) ==
  IF a = <<>> THEN b # <<>>
  ELSE IF b = <<>> THEN FALSE
  ELSE IF Head(a) = Head(b) THEN StrLess(Tail(a), Tail(b))
  ELSE Ord(Head(a)) < Ord(Head(b))

\* int(s) for a string of digits
RECURSIVE ToInt(_)
ToInt(s) == IF s = <<>> THEN 0
            ELSE 10 * ToInt(SubSeq(s, 1, Len(s) - 1)) + Ord(s[Len(s)])

\* ------------------------------------------------------------------ dict
\* A dict is the list of its <<key, value>> items in insertion order.
DictKeys(d) == [i \in 1..Len(d) |-> d[i][1]]
DictValues(d) == [i \in 1..Len(d) |-> d[i][2]]

\* ------------------------------------------------------------- make_jobs
PaddingWidthShort(c) == Len(Str(Len(c) \div 10))
\* the width of the "%0<w>d" padding: len(str(len(cmds)))
PaddingWidth(c) == Len(Str(Len(c)))

\* {padding % n: x for n, x in enumerate(cmds, start=1)}: a key keeps the
\* position of its first insertion and the value of its last one
make_jobs(c) ==
  LET w == PaddingWidth(c)
      key(n) == Pad(w, n)
      first(n) == \A m \in 1..(n - 1) : key(m) # key(n)
      last(n) == CHOOSE m \in n..Len(c) :
                   key(m) = key(n) /\ \A l \in (m + 1)..Len(c) : key(l) # key(n)
      idx == SelectSeq([n \in 1..Len(c) |-> n], first)
  IN [i \in 1..Len(idx) |-> <<key(idx[i]), c[last(idx[i])]>>]

\* --------------------------------------------------------- make_new_dir
Kinds == {"dir", "file", "link"}     \* link: a symbolic link to nothing
Extras == {<<>>, <<"q">>}            \* no qualifier / a qualifier

\* Path.exists(): follows links, so a dangling link does not exist
Exists(f, p) == p \in DOMAIN f /\ f[p] \in {"dir", "file"}
IsDir(f, p) == p \in DOMAIN f /\ f[p] = "dir"

\* dir / "mxstar.<num>" or dir / "mxstar.<extra>_<num>"
get_new_dir(dir, num, ex) ==
  Append(dir, <<"mxstar.">> \o (IF ex # <<>> THEN ex \o <<"_">> ELSE <<>>) \o Str(num))

RECURSIVE NewDirFrom(_, _, _, _)
\* the while loop of make_new_dir: first candidate that does not exist
NewDirFrom(f, dir, i, ex) ==
  IF Exists(f, get_new_dir(dir, i, ex))
  THEN NewDirFrom(f, dir, i + 1, ex)
  ELSE get_new_dir(dir, i, ex)

MkdirOkExistOk(f, p, w) ==
  /\ p \in DOMAIN f => f[p] = "dir"
  /\ Len(p) > 0
  /\ (Len(p) > 1 => IsDir(f, SubSeq(p, 1, Len(p) - 1)))
  /\ w
\* Path.mkdir(): raises when the entry is there (whatever it is), when the
\* parent is no directory or when the parent refuses new entries
MkdirOk(f, p, w) ==
  /\ p \notin DOMAIN f
  /\ Len(p) > 0
  /\ (Len(p) > 1 => IsDir(f, SubSeq(p, 1, Len(p) - 1)))
  /\ w

\* the tree after a mkdir that went through
Mkdir(f, p) == f @@ (p :> "dir")

NewDirPathFromOne(f, dir, ex) == NewDirFrom(f, dir, 1, ex)
\* the path make_new_dir settles on (before its mkdir)
NewDirPath(f, dir, ex) == NewDirFrom(f, dir, 0, ex)

\* no subprocess
NoProc ==
  [return_stdout |-> FALSE, caller |-> "none", child |-> "none",
   left |-> 0, pipe |-> 0, read |-> 0]

\* what the variables of a whole run hold when only one function is run
MainUnused ==
  /\ checked = <<>> /\ proc = NoProc /\ callers = <<>>
  /\ ftools = TRUE /\ headas = TRUE /\ sysPar = TRUE /\ isDir = TRUE
  /\ nproc = 1 /\ keeplog = FALSE /\ args = <<>> /\ cwd = <<>>
  /\ model_dir = <<>> /\ run_dirs = <<>> /\ logExists = FALSE /\ log = <<>>
  /\ queue = <<>> /\ wk = <<>> /\ results = <<>> /\ outq = <<>>
  /\ outcome = <<>> /\ launched = <<>> /\ copies = {} /\ failed = <<>>
  /\ invoked = <<>> /\ xstable = FALSE /\ exitStatus = -1

\* ===================== specification of make_jobs alone ================
CmdList(n, m) == [i \in 1..n |-> <<"xstar", "cmd", Str(i % m)>>]

InitJobs ==
  /\ \E n \in 0..MaxCmds, m \in 1..2 : cmds = CmdList(n, m)
  /\ jobs = <<>>
  /\ fs = <<>>
  /\ writable = TRUE
  /\ extra = <<>>
  /\ dirRet = <<>>
  /\ pc = "make_jobs"
  /\ MainUnused

MakeJobsCall ==
  /\ pc = "make_jobs"
  /\ jobs' = make_jobs(cmds)
  /\ pc' = "made_jobs"
  /\ UNCHANGED <<cmds, fs, writable, extra, dirRet, mainVars>>

NextJobs == MakeJobsCall

SpecJobs == InitJobs /\ [][NextJobs]_vars

\* ==================== specification of make_new_dir alone ==============
Candidates ==
  {get_new_dir(<<>>, k, e) : k \in 0..MaxOrd, e \in Extras}

InitDir ==
  /\ cmds = <<>>
  /\ jobs = <<>>
  /\ \E S \in SUBSET Candidates : fs \in [S -> Kinds]
  /\ writable \in BOOLEAN
  /\ extra \in Extras
  /\ dirRet = <<>>
  /\ pc = "make_new_dir"
  /\ MainUnused

\* one call of make_new_dir(parent, extra); a raising call ends the run
MakeNewDirCall ==
  /\ pc = "make_new_dir"
  /\ Len(dirRet) < MaxCalls
  /\ LET p == NewDirPath(fs, <<>>, extra) IN
       IF MkdirOk(fs, p, writable)
       THEN /\ fs' = Mkdir(fs, p)
            /\ dirRet' = Append(dirRet, p)
            /\ pc' = pc
       ELSE /\ pc' = "raised"
            /\ UNCHANGED <<fs, dirRet>>
  /\ UNCHANGED <<cmds, jobs, writable, extra, mainVars>>

NextDir == MakeNewDirCall

SpecDir == InitDir /\ [][NextDir]_vars

\* ========= specification of two make_new_dir calls at the same time ====
\* Two processes call make_new_dir(parent, extra) on the same parent with
\* the same qualifier.  Every exists() and every mkdir() is one step of the
\* file system; the steps of the two calls interleave in any order.
Callers == {1, 2}

OwnCandidates(ex) == {get_new_dir(<<>>, k, ex) : k \in 0..MaxOrd}

InitRace ==
  /\ cmds = <<>>
  /\ jobs = <<>>
  /\ extra \in Extras
  /\ \E S \in SUBSET OwnCandidates(extra) : fs \in [S -> Kinds]
  /\ writable \in BOOLEAN
  /\ dirRet = <<>>
  /\ pc = "make_new_dir"
  /\ ftools = TRUE /\ headas = TRUE /\ sysPar = TRUE /\ isDir = TRUE
  /\ nproc = 1 /\ keeplog = FALSE /\ args = <<>> /\ cwd = <<>>
  /\ model_dir = <<>> /\ run_dirs = <<>> /\ logExists = FALSE /\ log = <<>>
  /\ queue = <<>> /\ wk = <<>> /\ results = <<>> /\ outq = <<>>
  /\ outcome = <<>> /\ launched = <<>> /\ copies = {} /\ failed = <<>>
  /\ invoked = <<>> /\ xstable = FALSE /\ exitStatus = -1
  /\ checked = <<>> /\ proc = NoProc
  /\ callers = [c \in Callers |->
                  [pc |-> "exists", i |-> 0, new_dir |-> get_new_dir(<<>>, 0, extra)]]

raceFrame == <<cmds, jobs, writable, extra, pc, ftools, headas, sysPar, isDir,
               nproc, keeplog, args, cwd, model_dir, run_dirs, logExists, log,
               queue, wk, results, outq, outcome, launched, copies, failed,
               invoked, xstable, exitStatus, checked, proc>>

\* one test of the while loop: new_dir.exists(); if so i += 1 and the next
\* candidate, else the loop is left
ExistsStep(c) ==
  /\ callers[c].pc = "exists"
  /\ callers' = [callers EXCEPT ![c] =
       IF Exists(fs, callers[c].new_dir)
       THEN [@ EXCEPT !.i = @ + 1,
                      !.new_dir = get_new_dir(<<>>, callers[c].i + 1, extra)]
       ELSE [@ EXCEPT !.pc = "mkdir"]]
  /\ UNCHANGED <<fs, dirRet, raceFrame>>

\* new_dir.mkdir(); return new_dir
MkdirStep(c) ==
  /\ callers[c].pc = "mkdir"
  /\ IF MkdirOk(fs, callers[c].new_dir, writable)
     THEN /\ fs' = Mkdir(fs, callers[c].new_dir)
          /\ dirRet' = Append(dirRet, callers[c].new_dir)
          /\ callers' = [callers EXCEPT ![c].pc = "returned"]
     ELSE /\ callers' = [callers EXCEPT ![c].pc = "raised"]
          /\ UNCHANGED <<fs, dirRet>>
  /\ UNCHANGED raceFrame

NextRace ==
  \/ \E c \in Callers : ExistsStep(c)
  \/ \E c \in Callers : MkdirStep(c)

SpecRace == InitRace /\ [][NextRace]_vars

\* ========================= specification of a whole run ================
\* ----------------------------------------------------------- file names
Pfiles   == <<"pfiles">>
XstarPar == <<"xstar.par">>
Artifact == <<"xout_spect1.fits">>
BaseFits == <<"xstinitable.fits">>
SysPfiles == <<"$PFILES">>          \* the PFILES value heainit has set

\* the command lines of a job list: all carry the same modelname field,
\* quoted with q, or none when q is empty
XstarCmd(i, q) ==
  <<"xstar ">> \o (IF q = "" THEN <<>> ELSE <<"modelname=", q, "m", q>>)
               \o <<" niter=">> \o Str(i)
RunCmdList(n, q) == [i \in 1..n |-> XstarCmd(i, q)]

\* ------------------------------------------------------- get_model_name
\* re.search("modelname='(.*?)'", c): the leftmost match, its group the
\* shortest; <<FALSE, _>> when there is none (.group then raises)
ModelNameSearch(c) ==
  LET starts == {i \in 1..Len(c) :
                   /\ c[i] = "modelname="
                   /\ i + 1 <= Len(c) /\ c[i + 1] = "'"
                   /\ \E j \in (i + 2)..Len(c) : c[j] = "'"}
  IN IF starts = {} THEN <<FALSE, <<>>>>
     ELSE LET i == CHOOSE x \in starts : \A y \in starts : x <= y
              j == CHOOSE x \in (i + 2)..Len(c) :
                     c[x] = "'" /\ \A y \in (i + 2)..(x - 1) : c[y] # "'"
          IN <<TRUE, SubSeq(c, i + 2, j - 1)>>

get_model_name_default(j) == <<TRUE, <<"m">>>>
\* next(iter(jobs.values())) raises on an empty dict
get_model_name(j) ==
  IF j = <<>> THEN <<FALSE, <<>>>> ELSE ModelNameSearch(DictValues(j)[1])

\* ------------------------------------------------------------ the pool
NoTask == 0
PoolWorkersExtra(n) == 1..(n + 1)
\* mp.Pool(processes=n): n worker processes
PoolWorkers(n) == 1..n

IdleWorker(dir) ==
  [pc |-> "idle", task |-> NoTask, cwd |-> dir, previous_dir |-> dir,
   PFILES |-> <<SysPfiles>>]

NoResult == [kind |-> "none", job |-> 0, cmd |-> <<>>]
NoOutcome == [ran |-> FALSE, exit |-> 0, artifact |-> FALSE, utf8 |-> TRUE]

LogLine(tag, r) == [tag |-> tag, job |-> r.job, cmd |-> r.cmd]

\* an uncaught exception ends the process with status 1; the position of
\* main is then the name of the exception
Raise(e) ==
  /\ pc' = e
  /\ exitStatus' = 1

\* the state main starts in; an earlier run has left mxstar.0 in the
\* work directory
InitMain ==
  /\ cmds = <<>> /\ jobs = <<>>
  /\ fs = (get_new_dir(<<>>, 0, <<>>) :> "dir")
  /\ writable \in BOOLEAN
  /\ extra = <<>>
  /\ dirRet = <<>>
  /\ pc = "check_enviroment"
  /\ ftools \in BOOLEAN /\ headas \in BOOLEAN /\ sysPar \in BOOLEAN
  /\ isDir \in BOOLEAN
  /\ nproc \in 0..MaxProc
  /\ keeplog \in BOOLEAN
  /\ args \in {<<>>, <<"joblist.lis">>}
  /\ cwd = <<>>
  /\ model_dir = <<>> /\ run_dirs = <<>> /\ logExists = FALSE /\ log = <<>>
  /\ queue = <<>> /\ wk = <<>> /\ results = <<>> /\ outq = <<>>
  /\ outcome = <<>> /\ launched = <<>> /\ copies = {} /\ failed = <<>>
  /\ invoked = <<>> /\ xstable = FALSE /\ exitStatus = -1
  /\ checked = <<>> /\ proc = NoProc /\ callers = <<>>

poolVars == <<queue, wk, results, outq, outcome, launched, copies>>
optVars == <<ftools, headas, sysPar, isDir, nproc, keeplog, args, writable, extra>>

CheckEnviroment ==
  /\ pc = "check_enviroment"
  /\ IF ftools /\ isDir /\ writable
     THEN pc' = "make_new_dir" /\ UNCHANGED exitStatus
     ELSE Raise("OSError")
  /\ UNCHANGED <<cmds, jobs, fs, dirRet, cwd, model_dir, run_dirs, logExists,
                 log, failed, invoked, xstable, poolVars, optVars, unitVars>>

\* workdir = make_new_dir(options.workdir); os.chdir(workdir)
MakeNewDir ==
  /\ pc = "make_new_dir"
  /\ LET p == NewDirPath(fs, <<>>, extra) IN
       IF MkdirOk(fs, p, writable)
       THEN /\ fs' = Mkdir(fs, p)
            /\ dirRet' = Append(dirRet, p)
            /\ cwd' = p
            /\ pc' = "get_xstar_cmds"
            /\ UNCHANGED exitStatus
       ELSE Raise("OSError") /\ UNCHANGED <<fs, dirRet, cwd>>
  /\ UNCHANGED <<cmds, jobs, model_dir, run_dirs, logExists,
                 log, failed, invoked, xstable, poolVars, optVars, unitVars>>

\* get_xstar_cmds: the job list ends up in the current directory (copied,
\* or written by xstinitable) and is read; a job list that is not there
\* makes read_text raise
GetXstarCmds ==
  /\ pc = "get_xstar_cmds"
  /\ \/ /\ \E n \in 0..MaxJobs, q \in {"'", "\"", ""} : cmds' = RunCmdList(n, q)
        /\ pc' = "make_jobs"
        /\ UNCHANGED exitStatus
     \/ Raise("FileNotFoundError") /\ UNCHANGED cmds
  /\ UNCHANGED <<jobs, fs, dirRet, cwd, model_dir, run_dirs, logExists,
                 log, failed, invoked, xstable, poolVars, optVars, unitVars>>

MakeJobs ==
  /\ pc = "make_jobs"
  /\ jobs' = make_jobs(cmds)
  /\ pc' = "get_model_name"
  /\ UNCHANGED <<cmds, fs, dirRet, cwd, model_dir, run_dirs, logExists,
                 log, failed, invoked, xstable, exitStatus, poolVars, optVars, unitVars>>

\* model_dir = workdir.joinpath(get_model_name(jobs))
GetModelName ==
  /\ pc = "get_model_name"
  /\ LET r == get_model_name(jobs) IN
       IF r[1]
       THEN /\ model_dir' = Append(dirRet[1], r[2])
            /\ pc' = "mkdir_model_dir"
            /\ UNCHANGED exitStatus
       ELSE Raise(IF jobs = <<>> THEN "StopIteration" ELSE "AttributeError")
            /\ UNCHANGED model_dir
  /\ UNCHANGED <<cmds, jobs, fs, dirRet, cwd, run_dirs, logExists,
                 log, failed, invoked, xstable, poolVars, optVars, unitVars>>

\* if not model_dir.exists(): model_dir.mkdir(); os.chdir(model_dir);
\* run_dirs = [model_dir.joinpath(run_dir) for run_dir in jobs.keys()]
MkdirModelDir ==
  /\ pc = "mkdir_model_dir"
  /\ fs' = IF Exists(fs, model_dir) THEN fs ELSE Mkdir(fs, model_dir)
  /\ cwd' = model_dir
  /\ run_dirs' = [i \in 1..Len(jobs) |-> Append(model_dir, DictKeys(jobs)[i])]
  /\ pc' = "make_run_dirs"
  /\ UNCHANGED <<cmds, jobs, dirRet, model_dir, logExists,
                 log, failed, invoked, xstable, exitStatus, poolVars, optVars, unitVars>>

RECURSIVE MkdirAll(_, _)
MkdirAll(f, ds) == IF ds = <<>> THEN f ELSE MkdirAll(Mkdir(f, Head(ds)), Tail(ds))

\* make_run_dirs(run_dirs), then setup_logging(options.log_file)
MakeRunDirs ==
  /\ pc = "make_run_dirs"
  /\ IF \A i \in 1..Len(run_dirs) : MkdirOk(fs, run_dirs[i], TRUE)
     THEN /\ fs' = MkdirAll(fs, run_dirs)
          /\ logExists' = TRUE
          /\ pc' = "pool"
          /\ UNCHANGED exitStatus
     ELSE Raise("FileExistsError") /\ UNCHANGED <<fs, logExists>>
  /\ UNCHANGED <<cmds, jobs, dirRet, cwd, model_dir, run_dirs,
                 log, failed, invoked, xstable, poolVars, optVars, unitVars>>

\* mp.Pool(processes=options.nproc), then process_jobs up to pool.map:
\* every item of jobs becomes one task (chunksize 1), in dict order
StartPool ==
  /\ pc = "pool"
  /\ IF nproc >= 1
     THEN /\ wk' = [w \in PoolWorkers(nproc) |-> IdleWorker(cwd)]
          /\ queue' = [i \in 1..Len(jobs) |-> i]
          /\ results' = [i \in 1..Len(jobs) |-> NoResult]
          /\ outcome' = [i \in 1..Len(jobs) |-> NoOutcome]
          /\ launched' = [i \in 1..Len(jobs) |-> 0]
          /\ log' = log \o <<LogLine("Using Dir", NoResult), LogLine("Start time", NoResult)>>
          /\ pc' = "map"
          /\ UNCHANGED exitStatus
     ELSE Raise("ValueError") /\ UNCHANGED <<wk, queue, results, outcome, launched, log>>
  /\ UNCHANGED <<cmds, jobs, fs, dirRet, cwd, model_dir, run_dirs, logExists,
                 failed, invoked, xstable, outq, copies, optVars, unitVars>>

\* ------------------------------------------------------------ run_xstar
Range(q) == {q[i] : i \in 1..Len(q)}
SetWk(w, r) == [wk EXCEPT ![w] = r]

ChdirTargetStay(c, dir) == c
\* os.chdir(dir) with a relative dir: where the worker ends up
ChdirTarget(c, dir) == Append(c, dir)

RunXstarReturnsOnSuccess(o) == o.utf8 /\ o.exit = 0
\* after xstar.wait(): the return code is dropped, the output is decoded
\* line by line (which raises on bytes that are not UTF-8)
RunXstarReturns(o) == o.utf8

\* the task of a worker is over: its result (or its exception) goes back,
\* the worker is ready for the next task
ReturnTask(w, kind, dir) ==
  LET j == wk[w].task IN
  /\ results' = [results EXCEPT ![j] = [kind |-> kind, job |-> j, cmd |-> jobs[j][2]]]
  /\ outq' = Append(outq, j)
  /\ wk' = SetWk(w, [wk[w] EXCEPT !.pc = "idle", !.task = NoTask, !.cwd = dir])

mainLocal == <<cmds, jobs, dirRet, pc, cwd, model_dir, run_dirs, logExists,
               log, failed, invoked, xstable, exitStatus, optVars, unitVars>>

\* an idle worker takes the next task; run_xstar up to os.chdir(dir).
\* Idle workers in the same state are interchangeable: of those, the one
\* with the lowest number stands for all.
TakeTask(w) ==
  /\ pc = "map"
  /\ wk[w].pc = "idle"
  /\ \A v \in DOMAIN wk : v < w => wk[v] # wk[w]
  /\ queue # <<>>
  /\ LET j == Head(queue)
         target == ChdirTarget(wk[w].cwd, jobs[j][1])
     IN /\ queue' = Tail(queue)
        /\ IF IsDir(fs, target)
           THEN /\ wk' = SetWk(w, [wk[w] EXCEPT !.pc = "setup_pfiles", !.task = j,
                                     !.previous_dir = wk[w].cwd, !.cwd = target])
                /\ UNCHANGED <<results, outq>>
           ELSE /\ results' = [results EXCEPT ![j] =
                                 [kind |-> "exc", job |-> j, cmd |-> jobs[j][2]]]
                /\ outq' = Append(outq, j)
                /\ UNCHANGED wk
  /\ UNCHANGED <<fs, outcome, launched, copies, mainLocal>>

PfilesEnvKept(old, dst) == old
\* os.environ["PFILES"] = str(dst): the relative path of the new directory
PfilesEnv(old, dst) == dst

\* where a command started in directory c finds its parameter files:
\* a relative PFILES is taken from the current directory
PfilesResolved(c, p) == IF p = <<SysPfiles>> THEN p ELSE c \o p

\* setup_pfiles(): mkdir pfiles, copy xstar.par into it, set PFILES; then
\* run(..., return_stdout=False) launches the command
SetupPfiles(w) ==
  /\ wk[w].pc = "setup_pfiles"
  /\ LET dst == Append(wk[w].cwd, Pfiles) IN
       IF ~MkdirOk(fs, dst, TRUE)
       THEN ReturnTask(w, "exc", wk[w].cwd) /\ UNCHANGED <<fs, copies, launched>>
       ELSE IF ~(headas /\ sysPar)
       THEN ReturnTask(w, "exc", wk[w].cwd) /\ fs' = Mkdir(fs, dst)
            /\ UNCHANGED <<copies, launched>>
       ELSE /\ fs' = Mkdir(fs, dst) @@ (Append(dst, XstarPar) :> "file")
            /\ copies' = copies \cup {[job |-> wk[w].task, path |-> Append(dst, XstarPar)]}
            /\ launched' = [launched EXCEPT ![wk[w].task] = @ + 1]
            /\ wk' = SetWk(w, [wk[w] EXCEPT !.pc = "wait",
                                      !.PFILES = PfilesEnv(wk[w].PFILES, <<Pfiles>>)])
            /\ UNCHANGED <<results, outq>>
  /\ UNCHANGED <<queue, outcome, mainLocal>>

\* the external command ends: it has or has not written its spectrum into
\* its current directory, exits with some status, and its output is or is
\* not UTF-8.  Then xstar.wait() returns, the output is collected,
\* os.chdir(previous_dir), and the result goes back.
Collect(w) ==
  /\ wk[w].pc = "wait"
  /\ \E e \in {0, 1}, a \in BOOLEAN, u \in BOOLEAN :
       LET o == [ran |-> TRUE, exit |-> e, artifact |-> a, utf8 |-> u] IN
         /\ outcome' = [outcome EXCEPT ![wk[w].task] = o]
         /\ fs' = IF a THEN (Append(wk[w].cwd, Artifact) :> "file") @@ fs ELSE fs
         /\ IF RunXstarReturns(o)
            THEN ReturnTask(w, "ok", wk[w].previous_dir)
            ELSE ReturnTask(w, "exc", wk[w].cwd)
  /\ UNCHANGED <<queue, launched, copies, mainLocal>>

\* ------------------------------------------------- process_jobs, the end
MapResultUnordered(res, order) == [i \in 1..Len(res) |-> res[order[i]]]
\* what pool.map returns: the results in the order of the submitted items
MapResult(res, order) == res

MapReadyOnFirst(res) == \E j \in 1..Len(res) : res[j].kind # "none"
\* MapResult.get(): waits until the result of every task has come back
MapReady(res) == \A j \in 1..Len(res) : res[j].kind # "none"

\* pool.map returns once every task is over; it raises if a task raised
MapReturns ==
  /\ pc = "map"
  /\ MapReady(results)
  /\ IF \A j \in 1..Len(results) : results[j].kind # "exc"
     THEN /\ log' = log \o [i \in 1..Len(results) |->
                              LogLine("result", MapResult(results, outq)[i])]
                        \o <<LogLine("End time", NoResult), LogLine("Duration", NoResult)>>
          /\ pc' = "check_results"
          /\ UNCHANGED exitStatus
     ELSE Raise("WorkerException") /\ UNCHANGED log
  /\ UNCHANGED <<cmds, jobs, fs, dirRet, cwd, model_dir, run_dirs, logExists,
                 failed, invoked, xstable, poolVars, optVars, unitVars>>

\* -------------------------------------------------------- check_results
ArtifactMissingDir(f, d) == ~Exists(f, d)
\* not dir.joinpath("xout_spect1.fits").exists()
ArtifactMissing(f, d) == ~Exists(f, Append(d, Artifact))

RECURSIVE CheckFrom(_, _, _)
CheckFrom(f, dirs, fault) ==
  IF dirs = <<>> THEN fault
  ELSE CheckFrom(f, Tail(dirs),
                 IF ArtifactMissing(f, Head(dirs)) THEN Append(fault, Head(dirs))
                 ELSE fault)

check_results_first(f, dirs) ==
  LET miss == {i \in 1..Len(dirs) : ArtifactMissing(f, dirs[i])}
  IN IF miss = {} THEN <<>>
     ELSE <<dirs[CHOOSE i \in miss : \A k \in miss : i <= k]>>
check_results(f, dirs) == CheckFrom(f, dirs, <<>>)

CheckResultsTreeTouched(f, dirs) ==
  f @@ [p \in {Append(dirs[i], Artifact) : i \in 1..Len(dirs)} |-> "file"]
\* the tree after check_results: exists() only looks
CheckResultsTree(f, dirs) == f

CheckResults ==
  /\ pc = "check_results"
  /\ failed' = check_results(fs, run_dirs)
  /\ fs' = CheckResultsTree(fs, run_dirs)
  /\ IF Len(failed') > 0
     THEN /\ log' = Append(log, LogLine("Somethings not right", NoResult))
          /\ pc' = "exited"
          /\ exitStatus' = 1
     ELSE /\ pc' = "make_xstable"
          /\ UNCHANGED <<log, exitStatus>>
  /\ UNCHANGED <<cmds, jobs, dirRet, cwd, model_dir, run_dirs, logExists,
                 invoked, xstable, poolVars, optVars, unitVars>>

\* =================== specification of check_results alone ==============
\* what a job directory may hold: it is missing, it lacks the artifact, or
\* the artifact is there as a file, a directory or a dangling link
Holds == {"nodir", "none"} \cup Kinds

\* the tree in which job directory dirs[i] holds h[i]
TreeOf(dirs, h) ==
  LET there == {i \in 1..Len(dirs) : h[i] # "nodir"}
      with == {i \in 1..Len(dirs) : h[i] \in Kinds}
  IN [p \in {dirs[i] : i \in there} |-> "dir"]
     @@ [p \in {Append(dirs[i], Artifact) : i \in with} |->
           h[CHOOSE i \in with : Append(dirs[i], Artifact) = p]]

InitVerify ==
  /\ \E n \in 1..MaxJobs :
       /\ cmds = RunCmdList(n, "'")
       /\ jobs = make_jobs(cmds)
       /\ run_dirs = [i \in 1..n |-> <<<<"m">>, DictKeys(jobs)[i]>>]
       /\ \E h \in [1..n -> Holds] : fs = TreeOf(run_dirs, h)
  /\ writable = TRUE /\ extra = <<>> /\ dirRet = <<>>
  /\ pc = "check_results"
  /\ ftools = TRUE /\ headas = TRUE /\ sysPar = TRUE /\ isDir = TRUE
  /\ nproc = 1 /\ keeplog = FALSE /\ args = <<>> /\ cwd = <<>>
  /\ model_dir = <<<<"m">>>> /\ logExists = FALSE /\ log = <<>>
  /\ queue = <<>> /\ wk = <<>> /\ results = <<>> /\ outq = <<>>
  /\ outcome = <<>> /\ launched = <<>> /\ copies = {} /\ failed = <<>>
  /\ invoked = <<>> /\ xstable = FALSE /\ exitStatus = -1
  /\ checked = <<>> /\ proc = NoProc /\ callers = <<>>

\* one more call of check_results(run_dirs), on the tree the call before
\* has left
CheckResultsCall ==
  /\ pc = "check_results"
  /\ Len(checked) < MaxCalls
  /\ failed' = check_results(fs, run_dirs)
  /\ fs' = CheckResultsTree(fs, run_dirs)
  /\ checked' = Append(checked, failed')
  /\ UNCHANGED <<cmds, jobs, writable, extra, dirRet, pc, ftools, headas, sysPar,
                 isDir, nproc, keeplog, args, cwd, model_dir, run_dirs,
                 logExists, log, queue, wk, results, outq, outcome, launched,
                 copies, invoked, xstable, exitStatus, proc, callers>>

NextVerify == CheckResultsCall

SpecVerify == InitVerify /\ [][NextVerify]_vars

\* ========================= specification of run() alone ================
\* run(cmd, return_stdout=...) as make_xstable calls it (return_stdout
\* True) and as run_xstar calls it (False, followed by wait() and
\* readlines()).  The command writes its output to the pipe, blocks while
\* the pipe is full, and exits once all of it is written.
SetProc(r) ==
  /\ proc' = r
  /\ UNCHANGED <<cmds, jobs, fs, writable, extra, dirRet, pc, ftools, headas,
                 sysPar, isDir, nproc, keeplog, args, cwd, model_dir, run_dirs,
                 logExists, log, queue, wk, results, outq, outcome, launched,
                 copies, failed, invoked, xstable, exitStatus, checked, callers>>

InitPipe ==
  /\ cmds = <<>> /\ jobs = <<>> /\ fs = <<>> /\ writable = TRUE
  /\ extra = <<>> /\ dirRet = <<>> /\ pc = "run"
  /\ ftools = TRUE /\ headas = TRUE /\ sysPar = TRUE /\ isDir = TRUE
  /\ nproc = 1 /\ keeplog = FALSE /\ args = <<>> /\ cwd = <<>>
  /\ model_dir = <<>> /\ run_dirs = <<>> /\ logExists = FALSE /\ log = <<>>
  /\ queue = <<>> /\ wk = <<>> /\ results = <<>> /\ outq = <<>>
  /\ outcome = <<>> /\ launched = <<>> /\ copies = {} /\ failed = <<>>
  /\ invoked = <<>> /\ xstable = FALSE /\ exitStatus = -1
  /\ checked = <<>> /\ callers = <<>>
  /\ \E r \in BOOLEAN, n \in 0..MaxOut :
       proc = [NoProc EXCEPT !.return_stdout = r, !.caller = "popen", !.left = n]

\* proc = subprocess.Popen(cmd, stdout=PIPE, ...); then communicate() or,
\* back in run_xstar, xstar.wait()
Popen ==
  /\ proc.caller = "popen"
  /\ SetProc([proc EXCEPT !.child = "running",
                          !.caller = IF proc.return_stdout THEN "communicate"
                                     ELSE "wait"])

\* the command writes one more byte; a full pipe makes it wait
ChildWrites ==
  /\ proc.child = "running"
  /\ proc.left > 0
  /\ proc.pipe < PipeCap
  /\ SetProc([proc EXCEPT !.left = @ - 1, !.pipe = @ + 1])

\* the command has written all its output and exits
ChildExits ==
  /\ proc.child = "running"
  /\ proc.left = 0
  /\ SetProc([proc EXCEPT !.child = "exited"])

\* communicate() reads the pipe while the command runs ...
CommunicateReads ==
  /\ proc.caller = "communicate"
  /\ proc.pipe > 0
  /\ SetProc([proc EXCEPT !.pipe = @ - 1, !.read = @ + 1])

\* ... and returns at end of file, once the command is gone
CommunicateReturns ==
  /\ proc.caller = "communicate"
  /\ proc.child = "exited"
  /\ proc.pipe = 0
  /\ SetProc([proc EXCEPT !.caller = "returned"])

\* xstar.wait() returns when the command has exited; nothing is read
\* from the pipe until then
WaitReturns ==
  /\ proc.caller = "wait"
  /\ proc.child = "exited"
  /\ SetProc([proc EXCEPT !.caller = "readlines"])

\* xstar.stdout.readlines(): everything up to end of file
Readlines ==
  /\ proc.caller = "readlines"
  /\ SetProc([proc EXCEPT !.read = @ + proc.pipe, !.pipe = 0,
                          !.caller = "returned"])

NextPipe ==
  \/ Popen
  \/ ChildWrites
  \/ ChildExits
  \/ CommunicateReads
  \/ CommunicateReturns
  \/ WaitReturns
  \/ Readlines

SpecPipe == InitPipe /\ [][NextPipe]_vars

\* --------------------------------------------------------- make_xstable
\* PurePath.__lt__ on paths of equal length: the first differing component
\* decides
RECURSIVE PathLess(_, _)
PathLess(a, b) ==
  IF a = <<>> \/ b = <<>> THEN FALSE
  ELSE IF Head(a) = Head(b) THEN PathLess(Tail(a), Tail(b))
  ELSE StrLess(Head(a), Head(b))

RECURSIVE Insert(_, _)
Insert(x, sq) ==
  IF sq = <<>> THEN <<x>>
  ELSE IF PathLess(x, Head(sq)) THEN <<x>> \o sq
  ELSE <<Head(sq)>> \o Insert(x, Tail(sq))

RECURSIVE Sorted(_)
\* sorted(run_dirs)
Sorted(sq) == IF sq = <<>> THEN <<>> ELSE Insert(Head(sq), Sorted(Tail(sq)))

\* make_xstable up to its loop: Path(args[0]).with_suffix("fits") raises
\* (the suffix lacks its dot); copy_tree raises unless base_file is a
\* directory.  What is at base_file is up to the external tools.
MakeXstable ==
  /\ pc = "make_xstable"
  /\ xstable' = TRUE
  /\ \E kind \in {"none", "file", "dir"} :
       IF args = <<>> /\ kind = "dir"
       THEN /\ fs' = [d \in {Append(model_dir, <<n>>) :
                             n \in {"xout_ain.fits", "xout_aout.fits", "xout_mtable.fits"}}
                        |-> "dir"]
                     @@ (Append(cwd, BaseFits) :> "dir") @@ fs
            /\ pc' = "xstar2table"
            /\ UNCHANGED exitStatus
       ELSE Raise(IF args # <<>> THEN "ValueError" ELSE "DistutilsFileError")
            /\ UNCHANGED fs
  /\ UNCHANGED <<cmds, jobs, dirRet, cwd, model_dir, run_dirs, logExists,
                 log, failed, invoked, poolVars, optVars, unitVars>>

\* one turn of the loop over sorted(run_dirs): run(xstar2table ...) waits for
\* the command and ignores how it ended
XstarToTable ==
  /\ pc = "xstar2table"
  /\ Len(invoked) < Len(run_dirs)
  /\ \E ok \in BOOLEAN :
       invoked' = Append(invoked, [dir |-> Sorted(run_dirs)[Len(invoked) + 1], ok |-> ok])
  /\ UNCHANGED <<cmds, jobs, fs, dirRet, pc, cwd, model_dir, run_dirs, logExists,
                 log, failed, xstable, exitStatus, poolVars, optVars, unitVars>>

LogAfterUnlinkAlways(keep, exists) == FALSE
\* if not options.keeplog: options.log_file.unlink()
LogAfterUnlink(keep, exists) == keep /\ exists

\* the loop is over; the log file is removed unless it is to be kept
Unlink ==
  /\ pc = "xstar2table"
  /\ Len(invoked) = Len(run_dirs)
  /\ logExists' = LogAfterUnlink(keeplog, logExists)
  /\ pc' = "exited"
  /\ exitStatus' = 0
  /\ UNCHANGED <<cmds, jobs, fs, dirRet, cwd, model_dir, run_dirs,
                 log, failed, invoked, xstable, poolVars, optVars, unitVars>>

Next ==
  \/ CheckEnviroment
  \/ MakeNewDir
  \/ GetXstarCmds
  \/ MakeJobs
  \/ GetModelName
  \/ MkdirModelDir
  \/ MakeRunDirs
  \/ StartPool
  \/ \E w \in DOMAIN wk : TakeTask(w)
  \/ \E w \in DOMAIN wk : SetupPfiles(w)
  \/ \E w \in DOMAIN wk : Collect(w)
  \/ MapReturns
  \/ CheckResults
  \/ MakeXstable
  \/ XstarToTable
  \/ Unlink

Spec == InitMain /\ [][Next]_vars

\* =============================== properties ============================
Key(j) == jobs[j][1]
JobIds == 1..Len(jobs)
\* jobs a worker has taken and not yet given back
Executing == {j \in DOMAIN results : j \notin Range(queue) /\ results[j].kind = "none"}
\* pool.map has returned and process_jobs has written its log
LogWritten == \E i \in 1..Len(log) : log[i].tag = "End time"
HasArtifact(d) == Exists(fs, Append(d, Artifact))
\* the rank of a job's key among all keys, by string comparison
KeyRank(j) == Cardinality({k \in JobIds : StrLess(Key(k), Key(j))}) + 1

\* C1: make_xstable is called, and xstar2table invoked, only when
\* check_results found no failure: then every job directory holds
\* xout_spect1.fits; a run with a directory lacking it never aggregates.
C1_AggregateOnlyIfNoFailure ==
  (xstable \/ invoked # <<>>) =>
     /\ LogWritten
     /\ failed = <<>>
     /\ \A i \in 1..Len(run_dirs) : HasArtifact(run_dirs[i])

C1_Witness ==
  /\ pc = "exited" /\ exitStatus = 1
  /\ Len(failed) > 0 /\ Len(failed) < Len(run_dirs)
  /\ ~xstable /\ invoked = <<>>

\* C2: every xstar.par copy made by a worker lies in pfiles under the
\* directory model_dir/<key> of the job it was made for, every launched job
\* has its copy, and the copies of two distinct jobs have different paths.
C2_PrivateCopies ==
  /\ \A c \in copies :
       /\ c.path = model_dir \o <<Key(c.job), Pfiles, XstarPar>>
       /\ Exists(fs, c.path)
  /\ \A j \in DOMAIN launched :
       launched[j] > 0 => \E c \in copies : c.job = j
  /\ \A c1, c2 \in copies : c1.job # c2.job => c1.path # c2.path

C2_Witness ==
  /\ nproc = 1
  /\ Cardinality({c.job : c \in copies}) >= 2
  /\ \E w \in DOMAIN wk : wk[w].pc = "wait"

\* C3: once the pool has drained and the process has ended, its exit status
\* is non-zero exactly when some job directory lacks xout_spect1.fits.
C3_ExitStatusIffMissing ==
  (LogWritten /\ exitStatus # -1) =>
     ((exitStatus # 0) <=> (\E i \in 1..Len(run_dirs) : ~HasArtifact(run_dirs[i])))

\* C4: a run that ends with an empty failed list has invoked xstar2table
\* exactly once per job directory, in ascending key order, whatever the
\* outcome of the single invocations.
C4_AggregatorOncePerJob ==
  (LogWritten /\ exitStatus # -1
     /\ \A i \in 1..Len(run_dirs) : HasArtifact(run_dirs[i])) =>
     /\ Len(invoked) = Len(run_dirs)
     /\ \A j \in JobIds : invoked[KeyRank(j)].dir = run_dirs[j]

C6_LogInKeyOrder ==
  LogWritten =>
    LET rl == SelectSeq(log, LAMBDA e : e.tag = "result") IN
      /\ Len(rl) = Len(jobs)
      /\ \A j \in JobIds : rl[KeyRank(j)].job = j /\ rl[KeyRank(j)].cmd = jobs[j][2]

C6_Witness ==
  /\ LogWritten
  /\ Len(jobs) >= 3
  /\ outq[1] = 2 /\ outq[2] = 3 /\ outq[3] = 1

\* C7: never more than nproc jobs are executing, and every executing job is
\* held by exactly one worker (a worker holds one task at a time).
C7_AtMostNprocExecuting ==
  /\ Cardinality(Executing) <= nproc
  /\ \A j \in Executing : Cardinality({w \in DOMAIN wk : wk[w].task = j}) = 1

C7_Witness ==
  /\ nproc = 2
  /\ Cardinality(Executing) = 2
  /\ queue # <<>>
  /\ \A w \in DOMAIN wk : wk[w].pc = "wait"

\* C8: after check_results, failed lists exactly the job directories without
\* xout_spect1.fits, each once, and is empty exactly when there is none.
C8_CheckResultsExact ==
  pc \in {"make_xstable", "xstar2table", "exited"} =>
     /\ Range(failed) = {run_dirs[i] : i \in {k \in 1..Len(run_dirs) : ~HasArtifact(run_dirs[k])}}
     /\ Len(failed) = Cardinality(Range(failed))
     /\ (failed = <<>> <=> \A i \in 1..Len(run_dirs) : HasArtifact(run_dirs[i]))

C8_Witness ==
  /\ pc = "exited"
  /\ Len(run_dirs) = 3
  /\ failed = <<run_dirs[1], run_dirs[3]>>
  /\ HasArtifact(run_dirs[2])

\* the name the allocator is to give: mxstar.<k> or mxstar.<qualifier>_<k>
ExpectedDir(k) ==
  IF extra = <<>> THEN << <<"mxstar.">> \o Str(k) >>
  ELSE << <<"mxstar.">> \o extra \o <<"_">> \o Str(k) >>

\* C9: a make_new_dir call that returns, returns mxstar.<k> (with the
\* qualifier if there is one) for the smallest k whose path did not exist
\* before the call; that path did not exist before, is a directory after,
\* and differs from the paths of the earlier calls.
C9_MakeNewDirSmallestFree ==
  [][ (pc = "make_new_dir" /\ Len(dirRet') = Len(dirRet) + 1) =>
        LET p == dirRet'[Len(dirRet')] IN
          /\ \E k \in 0..(MaxOrd + MaxCalls) :
               /\ p = ExpectedDir(k)
               /\ \A i \in 0..(k - 1) : Exists(fs, ExpectedDir(i))
          /\ ~Exists(fs, p)
          /\ IsDir(fs', p)
          /\ \A i \in 1..Len(dirRet) : dirRet[i] # p ]_vars

C9_Witness ==
  /\ Len(dirRet) = 2
  /\ extra # <<>>
  /\ dirRet[1] = ExpectedDir(1)
  /\ dirRet[2] = ExpectedDir(2)
  /\ fs[ExpectedDir(0)] = "file"

\* the number of decimal digits of n
DigitCount(n) == CHOOSE d \in 1..(n + 1) : n < 10^d /\ (d = 1 \/ n >= 10^(d - 1))
IsDigits(s) == \A i \in 1..Len(s) : \E d \in 1..10 : DigitChars[d] = s[i]

\* C10: for n >= 1 commands make_jobs gives n items; the key of the i-th
\* command is i written in decimal, zero padded to digitCount(n) characters,
\* and maps to that command; the keys are distinct and their string order
\* is their numeric order and the order of the commands.
C10_MakeJobsKeys ==
  (pc = "made_jobs" /\ Len(cmds) >= 1) =>
     /\ Len(jobs) = Len(cmds)
     /\ \A i \in 1..Len(jobs) :
          /\ Len(Key(i)) = DigitCount(Len(cmds))
          /\ IsDigits(Key(i))
          /\ ToInt(Key(i)) = i
          /\ jobs[i][2] = cmds[i]
     /\ \A i, k \in 1..Len(jobs) : (i < k) <=> StrLess(Key(i), Key(k))

C10_Witness ==
  /\ pc = "made_jobs"
  /\ Len(cmds) = 100
  /\ Key(7) = <<"0", "0", "7">>
  /\ Key(100) = <<"1", "0", "0">>

\* C11: building the job set from an empty command list fails in the build
\* step: make_jobs never hands back a job set for an empty list.
C11_EmptyBuildFails ==
  ~(pc = "made_jobs" /\ cmds = <<>>)

\* the directories this run has made so far
MadeByRun == DOMAIN fs \ {get_new_dir(<<>>, 0, <<>>)}
\* main has gone past get_model_name (or has ended there)
PastModelName ==
  pc \notin {"check_enviroment", "make_new_dir", "get_xstar_cmds", "make_jobs",
             "get_model_name", "OSError", "FileNotFoundError"}
InputError == pc \in {"StopIteration", "AttributeError"}

\* C12: with FTOOLS or HEADAS unset the run ends in the environment check:
\* it never gets further, makes no directory and starts no worker.
C12_EnvCheckedFirst ==
  (~ftools \/ ~headas) =>
     /\ pc \in {"check_enviroment", "OSError"}
     /\ MadeByRun = {}
     /\ wk = <<>>

C14_ModelNameExtracted ==
  (PastModelName /\ cmds # <<>>) =>
     /\ \A q \in {"'", "\""} :
          cmds[1] = XstarCmd(1, q) =>
            (pc # "AttributeError" /\ model_dir = Append(dirRet[1], <<"m">>))
     /\ cmds[1] = XstarCmd(1, "") => pc = "AttributeError"

\* C15: the log file is deleted only at the end of a run in which every
\* job left its artifact, the aggregation ran through and keeplog is not
\* set; and when the process ends the log file is gone exactly in that
\* case, otherwise it still exists.
C15_LogDeletedIff ==
  [][LET allDone == /\ check_results(fs', run_dirs') = <<>>
                    /\ xstable' /\ Len(invoked') = Len(run_dirs')
                    /\ pc' = "exited" /\ exitStatus' = 0
     IN /\ (logExists /\ ~logExists') => (allDone /\ ~keeplog)
        /\ (logExists /\ exitStatus = -1 /\ exitStatus' # -1) =>
             (~logExists' <=> (allDone /\ ~keeplog))]_vars

C15_Witness ==
  /\ pc = "exited" /\ exitStatus = 0
  /\ ~keeplog /\ ~logExists
  /\ log # <<>>
  /\ Len(invoked) = 2

C17_LaunchedInOwnDir ==
  \A w \in DOMAIN wk :
    wk[w].pc = "wait" =>
      /\ wk[w].cwd = run_dirs[wk[w].task]
      /\ PfilesResolved(wk[w].cwd, wk[w].PFILES) = Append(run_dirs[wk[w].task], Pfiles)
      /\ IsDir(fs, PfilesResolved(wk[w].cwd, wk[w].PFILES))

C17_Witness ==
  /\ DOMAIN wk = {1}
  /\ wk[1].pc = "wait" /\ wk[1].task = 2
  /\ results[1].kind = "ok"

\* C18: a worker that is between two jobs is in the model directory, the
\* directory it was in before its first job: every run_xstar call has put
\* the current directory back.
C18_CwdRestored ==
  \A w \in DOMAIN wk : wk[w].pc = "idle" => wk[w].cwd = model_dir

\* main has got the results of pool.map
AfterMap ==
  pc \in {"check_results", "make_xstable", "xstar2table", "exited",
          "ValueError", "DistutilsFileError"}

\* C19: once main has got past pool.map (check_results and all that follows),
\* every job has been taken from the queue, has come back with its result
\* and no worker is running a job.
C19_VerifyAfterAllJobs ==
  (AfterMap /\ wk # <<>>) =>
     /\ queue = <<>>
     /\ \A j \in 1..Len(jobs) : results[j].kind # "none"
     /\ Len(outq) = Len(jobs)
     /\ \A w \in DOMAIN wk : wk[w].pc = "idle"
     /\ Executing = {}

C19_Witness ==
  /\ pc = "check_results"
  /\ Len(jobs) = 3
  /\ DOMAIN wk = {1, 2}
  /\ outq # <<1, 2, 3>>

\* C20: a command that writes all its output and exits as long as its output
\* is taken from the pipe never brings run_xstar to a halt: there is no
\* state in which the caller waits for the command to exit while the
\* command waits for room in the pipe it writes to.
C20_NoPipeDeadlock ==
  ~(/\ proc.caller = "wait"
    /\ proc.child = "running"
    /\ proc.left > 0
    /\ proc.pipe = PipeCap)

\* C21: two make_new_dir calls on the same parent with the same qualifier,
\* their exists() tests and mkdir() calls interleaved in any order, never
\* both return the same path: a candidate is created and returned by at most
\* one of them, the other raises or returns another path.
C21_NeverSamePath ==
  /\ \A a \in DOMAIN callers, b \in DOMAIN callers :
       (a # b /\ callers[a].pc = "returned" /\ callers[b].pc = "returned")
         => callers[a].new_dir # callers[b].new_dir
  /\ \A a \in DOMAIN callers :
       callers[a].pc = "returned" => IsDir(fs, callers[a].new_dir)
  /\ \A k \in 1..Len(dirRet), l \in 1..Len(dirRet) :
       k # l => dirRet[k] # dirRet[l]

\* both calls left the loop with the same candidate; one created it, the
\* other one's mkdir raised
C21_Witness ==
  /\ callers # <<>>
  /\ callers[1].new_dir = callers[2].new_dir
  /\ callers[1].i > 0
  /\ \E a \in Callers, b \in Callers :
       callers[a].pc = "returned" /\ callers[b].pc = "raised"

====
